---- MODULE Spec2Model ----
(***************************************************************************)
(* bgzfiltra: the cycle driver of src/bgzfiltra/main.py (main, lines       *)
(* 78-138), its aggregation steps, the grouping helpers and the SIGINT     *)
(* handler.  Python strings that the code slices, lower-cases or scans     *)
(* for substrings (priority, whiteboard) are sequences of one-character    *)
(* strings; strings that are only compared or used as dictionary keys      *)
(* (status, component, assigned_to, product) are TLA+ strings.             *)
(***************************************************************************)
EXTENDS Integers, Sequences, FiniteSets, TLC

VARIABLES
    pc,             \* position of the main thread in main()
    sub,            \* position inside one aggregation step: compute / insert / incall
    idx,            \* position of the `for product in products` iterator
    bugzilla_bugs,  \* main.py:91
    bugzilla_l3s,   \* main.py:95
    todo,           \* insert calls of the running for-loop not yet issued
    emitted,        \* insert calls issued for the current product, in order
    timestamp,      \* main.py:82
    clock,          \* the wall clock read by datetime.now()
    remaining,      \* seconds left of the running time.sleep
    exitStatus,     \* exit status of the process, NoExit while it runs
    raised,         \* the call whose exception ended the process, or "none"
    cycle,          \* number of the running iteration of `while True`
    cycleStart,     \* wall clock at the top of the running iteration
    fetched,        \* products fetched in the running iteration, in order
    stagesDone,     \* aggregation steps completed for the current product
    sigintSeen      \* a SIGINT has been delivered

vars == <<pc, sub, idx, bugzilla_bugs, bugzilla_l3s, todo, emitted, timestamp,
          clock, remaining, exitStatus, raised, cycle, cycleStart, fetched,
          stagesDone, sigintSeen>>

----------------------------------------------------------------------------
(* Bounds *)

MaxBugs == 2        \* longest record list a fetch returns

MaxCycles == 2      \* iterations of `while True` that are explored

Interval == 2       \* 60 * interval_minutes, in clock units

----------------------------------------------------------------------------
(* Python strings as character sequences *)

Str_empty == <<>>

Str_P1High == <<"P", "1", "-", "H", "i">>

Str_P2 == <<"P", "2">>

Str_p3 == <<"p", "3">>

Str_X == <<"X">>

Str_P5 == <<"P", "5">>

Str_p == <<"p">>

openL3 == <<"o", "p", "e", "n", "L", "3", ":">>

wasL3 == <<"w", "a", "s", "L", "3", ":">>

\* "openL3:a"
Wb_open == openL3 \o <<"a">>

\* "wasL3:b"
Wb_was == wasL3 \o <<"b">>

\* "openL3:a openL3:b"
Wb_open2 == openL3 \o <<"a", " ">> \o openL3 \o <<"b">>

\* "wasL3:a openL3:b wasL3:c"
Wb_mixed == wasL3 \o <<"a", " ">> \o openL3 \o <<"b", " ">> \o wasL3 \o <<"c">>

\* "openL3:openL3:": two occurrences back to back
Wb_adjacent == openL3 \o openL3

\* "openl3: L3:" holds no marker: the match is case-sensitive and whole
Wb_near == <<"o", "p", "e", "n", "l", "3", ":", " ", "L", "3", ":">>

\* the value of an attribute that is not a string (Python None)
None == <<"None">>

NoExit == -1

\* str.lower() on one character
LowerChar(c) ==
    CASE c = "P" -> "p"
      [] c = "H" -> "h"
      [] c = "X" -> "x"
      [] c = "L" -> "l"
      [] OTHER -> c

\* str.lower()
lower(s) == [i \in DOMAIN s |-> LowerChar(s[i])]

\* s[:n]
Prefix(s, n) == SubSeq(s, 1, IF Len(s) < n THEN Len(s) ELSE n)

\* `sub in s`
contains(s, needle) ==
    \E i \in 1..(Len(s) - Len(needle) + 1) :
        SubSeq(s, i, i + Len(needle) - 1) = needle

RECURSIVE CountFrom(_, _, _)
\* str.count scans left to right and resumes after each match
CountFrom(s, needle, i) ==
    IF i + Len(needle) - 1 > Len(s) THEN 0
    ELSE IF SubSeq(s, i, i + Len(needle) - 1) = needle
         THEN 1 + CountFrom(s, needle, i + Len(needle))
         ELSE CountFrom(s, needle, i + 1)

\* count that tells only whether the marker occurs
count_once(s, needle) == IF contains(s, needle) THEN 1 ELSE 0

\* s.count(needle)
count(s, needle) == CountFrom(s, needle, 1)

----------------------------------------------------------------------------
(* Configuration and the records the fetch collaborator can return *)

products == <<"X", "Y">>

Bug(st, co, as, pr, wb) ==
    [status |-> st, component |-> co, assigned_to |-> as,
     priority |-> pr, whiteboard |-> wb]

BugPool ==
    { Bug("NEW", "A", "alice", Str_P1High, Wb_open),
      Bug("RESOLVED", "A", "bob", Str_P2, Str_empty),
      Bug("NEW", "B", "alice", Str_P1High, Wb_was),
      Bug("resolved", "B", "bob", Str_X, Wb_open2),
      Bug("RESOLVED", "B", "alice", Str_empty, Wb_mixed),
      Bug("CONFIRMED", "A", "carol", Str_p3, Wb_near),
      Bug("RESOLVED", "A", "carol", Str_P5, Wb_open),
      Bug("NEW", "", "", Str_p, Wb_adjacent),
      Bug("NEW", "B", "bob", Str_P2, None) }

BugLists == UNION { [1..n -> BugPool] : n \in 0..MaxBugs }

----------------------------------------------------------------------------
(* The grouping helpers, main.py:22-61 *)

Front(s) == SubSeq(s, 1, Len(s) - 1)

Last(s) == s[Len(s)]

RECURSIVE GroupBy(_, _)
\* The loop shared by the three group_bugs_by_* functions: a dict from the
\* key to the list of bugs having it, in order of first occurrence.
GroupBy(bugs, attr) ==
    IF bugs = <<>> THEN <<>>
    ELSE LET grouped_bugs == GroupBy(Front(bugs), attr)
             bug == Last(bugs)
         IN  IF \E i \in DOMAIN grouped_bugs : grouped_bugs[i].key = bug[attr]
             THEN [i \in DOMAIN grouped_bugs |->
                     IF grouped_bugs[i].key = bug[attr]
                     THEN [key |-> grouped_bugs[i].key,
                           bugs |-> Append(grouped_bugs[i].bugs, bug)]
                     ELSE grouped_bugs[i]]
             ELSE Append(grouped_bugs, [key |-> bug[attr], bugs |-> <<bug>>])

RECURSIVE GroupByReset(_, _)
\* GroupBy with the list of a key reset at every bug instead of only at the
\* first one (the `not in` test dropped)
GroupByReset(bugs, attr) ==
    IF bugs = <<>> THEN <<>>
    ELSE LET grouped_bugs == GroupByReset(Front(bugs), attr)
             bug == Last(bugs)
         IN  IF \E i \in DOMAIN grouped_bugs : grouped_bugs[i].key = bug[attr]
             THEN [i \in DOMAIN grouped_bugs |->
                     IF grouped_bugs[i].key = bug[attr]
                     THEN [key |-> grouped_bugs[i].key, bugs |-> <<bug>>]
                     ELSE grouped_bugs[i]]
             ELSE Append(grouped_bugs, [key |-> bug[attr], bugs |-> <<bug>>])

group_bugs_by_status_reset(bugs) == GroupByReset(bugs, "status")

group_bugs_by_assignee(bugs) == GroupBy(bugs, "assigned_to")

group_bugs_by_component(bugs) == GroupBy(bugs, "component")

group_bugs_by_status(bugs) == GroupBy(bugs, "status")

\* is_l3 that takes any "L3:" for a marker
is_l3_loose(bug) ==
    IF bug.whiteboard = None THEN "TypeError"
    ELSE IF contains(bug.whiteboard, <<"L", "3", ":">>) THEN "True" ELSE "False"

\* main.py:64-68.  `in` on a whiteboard that is not a string raises TypeError.
is_l3(bug) ==
    IF bug.whiteboard = None THEN "TypeError"
    ELSE IF contains(bug.whiteboard, wasL3) \/ contains(bug.whiteboard, openL3)
         THEN "True" ELSE "False"

----------------------------------------------------------------------------
(* The aggregation steps of main, main.py:95-133: the insert calls each    *)
(* step makes, in order, as [dim, key, count]                              *)

\* for key, bugs in grouped_bugs.items(): db.insert_<dim>(product, key, len(bugs), timestamp)
Emissions(dim, grouped_bugs) ==
    [i \in DOMAIN grouped_bugs |->
        [dim |-> dim, key |-> grouped_bugs[i].key, count |-> Len(grouped_bugs[i].bugs)]]

\* main.py:95 when no is_l3 call raises
l3_filter(bugs) == SelectSeq(bugs, LAMBDA bug : is_l3(bug) = "True")

\* main.py:95 raises when some is_l3 call does
l3_filter_raises(bugs) == \E i \in DOMAIN bugs : is_l3(bugs[i]) = "TypeError"

\* main.py:98-100
status_step(bugs) == Emissions("status", group_bugs_by_status(bugs))

\* main.py:103-105
component_step(bugs) == Emissions("component", group_bugs_by_component(bugs))

\* main.py:108-110
l3_step(l3s) == Emissions("l3_status", group_bugs_by_status(l3s))

RECURSIVE SumCount(_, _)
\* results[k] += l3.whiteboard.count(marker), over bugzilla_l3s
SumCount(l3s, marker) ==
    IF l3s = <<>> THEN 0
    ELSE SumCount(Front(l3s), marker) + count(Last(l3s).whiteboard, marker)

\* main.py:113-118
l3_cases_step(l3s) ==
    << [dim |-> "l3_case", key |-> "open", count |-> SumCount(l3s, openL3)],
       [dim |-> "l3_case", key |-> "closed", count |-> SumCount(l3s, wasL3)] >>

\* the keys of the results dict of main.py:121, in insertion order
PrioKeys == << <<"p", "1">>, <<"p", "2">>, <<"p", "3">> >>

\* the dictionary key as a TLA+ string
PrioName(k) ==
    CASE k = <<"p", "1">> -> "p1"
      [] k = <<"p", "2">> -> "p2"
      [] k = <<"p", "3">> -> "p3"

\* prio without the lower-casing
prio_nolower(bug) == Prefix(bug.priority, 2)

\* main.py:123
prio(bug) == lower(Prefix(bug.priority, 2))

RECURSIVE priority_results(_)
\* main.py:121-125
priority_results(bugs) ==
    IF bugs = <<>> THEN [k \in {PrioKeys[i] : i \in DOMAIN PrioKeys} |-> 0]
    ELSE LET results == priority_results(Front(bugs))
             p == prio(Last(bugs))
         IN  IF p \in DOMAIN results THEN [results EXCEPT ![p] = @ + 1]
             ELSE results

\* main.py:121-127
priority_step(bugs) ==
    [i \in DOMAIN PrioKeys |->
        [dim |-> "priority", key |-> PrioName(PrioKeys[i]),
         count |-> priority_results(bugs)[PrioKeys[i]]]]

\* open_bugs with a case-insensitive comparison
open_bugs_nocase(bugs) ==
    SelectSeq(bugs, LAMBDA bug : bug.status \notin {"RESOLVED", "resolved"})

\* main.py:130
open_bugs(bugs) == SelectSeq(bugs, LAMBDA bug : bug.status # "RESOLVED")

\* main.py:130-133
assigned_step(bugs) == Emissions("assignee_open", group_bugs_by_assignee(open_bugs(bugs)))

----------------------------------------------------------------------------
(* The process *)

Stages == {"status", "component", "l3", "l3_cases", "priority", "assigned"}

\* the statement that follows the insert loop of a step
NextStage(p) ==
    CASE p = "status" -> "component"
      [] p = "component" -> "l3"
      [] p = "l3" -> "l3_cases"
      [] p = "l3_cases" -> "priority"
      [] p = "priority" -> "assigned"
      [] p = "assigned" -> "for_product"

Running == exitStatus = NoExit

Init ==
    /\ pc = "start"
    /\ sub = "idle"
    /\ idx = 1
    /\ bugzilla_bugs = <<>>
    /\ bugzilla_l3s = <<>>
    /\ todo = <<>>
    /\ emitted = <<>>
    /\ timestamp = 0
    /\ clock = 0
    /\ remaining = 0
    /\ exitStatus = NoExit
    /\ raised = "none"
    /\ cycle = 0
    /\ cycleStart = 0
    /\ fetched = <<>>
    /\ stagesDone = {}
    /\ sigintSeen = FALSE

\* main.py:79-88: settings, timestamp = datetime.now(), the store is set up,
\* and the first iteration of `while True` begins
Setup ==
    /\ Running /\ pc = "start"
    /\ timestamp' = clock
    /\ pc' = "for_product"
    /\ idx' = 1
    /\ cycle' = 1
    /\ cycleStart' = clock
    /\ UNCHANGED <<sub, bugzilla_bugs, bugzilla_l3s, todo, emitted, clock,
                   remaining, exitStatus, raised, fetched, stagesDone, sigintSeen>>

\* main.py:89-93: the for loop yields the next product and the fetch is called
FetchCall ==
    /\ Running /\ pc = "for_product" /\ idx <= Len(products)
    /\ pc' = "fetch"
    /\ fetched' = Append(fetched, products[idx])
    /\ emitted' = <<>>
    /\ stagesDone' = {}
    /\ bugzilla_bugs' = <<>>
    /\ bugzilla_l3s' = <<>>
    /\ UNCHANGED <<sub, idx, todo, timestamp, clock, remaining, exitStatus,
                   raised, cycle, cycleStart, sigintSeen>>

\* main.py:91: get_bugs_for_product returns the product's records
FetchReturn ==
    /\ Running /\ pc = "fetch"
    /\ \E bugs \in BugLists : bugzilla_bugs' = bugs
    /\ pc' = "classify"
    /\ UNCHANGED <<sub, idx, bugzilla_l3s, todo, emitted, timestamp, clock,
                   remaining, exitStatus, raised, cycle, cycleStart, fetched,
                   stagesDone, sigintSeen>>

\* An exception that nothing in main catches ends the process with status 1
Uncaught(site) ==
    /\ pc' = "crashed"
    /\ exitStatus' = 1
    /\ raised' = site
    /\ UNCHANGED <<sub, idx, bugzilla_bugs, bugzilla_l3s, todo, emitted,
                   timestamp, clock, remaining, cycle, cycleStart, fetched,
                   stagesDone, sigintSeen>>

\* main.py:91: get_bugs_for_product raises; main has no try
FetchRaise ==
    /\ Running /\ pc = "fetch"
    /\ Uncaught("fetch")

\* main.py:95: bugzilla_l3s = [bug for bug in bugzilla_bugs if is_l3(bug)]
Classify ==
    /\ Running /\ pc = "classify"
    /\ ~l3_filter_raises(bugzilla_bugs)
    /\ bugzilla_l3s' = l3_filter(bugzilla_bugs)
    /\ pc' = "status"
    /\ sub' = "compute"
    /\ UNCHANGED <<idx, bugzilla_bugs, todo, emitted, timestamp, clock,
                   remaining, exitStatus, raised, cycle, cycleStart, fetched,
                   stagesDone, sigintSeen>>

\* main.py:95: an is_l3 call raises; main has no try
ClassifyRaise ==
    /\ Running /\ pc = "classify"
    /\ l3_filter_raises(bugzilla_bugs)
    /\ Uncaught("is_l3")

\* A step groups or counts and enters its loop of insert calls
Compute(stage, calls) ==
    /\ Running /\ pc = stage /\ sub = "compute"
    /\ todo' = calls
    /\ sub' = "insert"
    /\ UNCHANGED <<pc, idx, bugzilla_bugs, bugzilla_l3s, emitted, timestamp,
                   clock, remaining, exitStatus, raised, cycle, cycleStart,
                   fetched, stagesDone, sigintSeen>>

\* main.py:98
StatusStep == Compute("status", status_step(bugzilla_bugs))

\* main.py:103
ComponentStep == Compute("component", component_step(bugzilla_bugs))

\* main.py:108
L3Step == Compute("l3", l3_step(bugzilla_l3s))

\* main.py:113-116
L3CasesStep == Compute("l3_cases", l3_cases_step(bugzilla_l3s))

\* main.py:121-125
PriorityStep == Compute("priority", priority_step(bugzilla_bugs))

\* main.py:130-131
AssignedStep == Compute("assigned", assigned_step(bugzilla_bugs))

\* main.py:100,105,110,117,118,127,133: db.insert_*(product, key, count, timestamp)
InsertCall ==
    /\ Running /\ pc \in Stages /\ sub = "insert" /\ todo # <<>>
    /\ emitted' = Append(emitted,
                         [dim |-> Head(todo).dim, key |-> Head(todo).key,
                          count |-> Head(todo).count, product |-> products[idx],
                          timestamp |-> timestamp])
    /\ sub' = "incall"
    /\ UNCHANGED <<pc, idx, bugzilla_bugs, bugzilla_l3s, todo, timestamp, clock,
                   remaining, exitStatus, raised, cycle, cycleStart, fetched,
                   stagesDone, sigintSeen>>

\* the insert call returns
InsertReturn ==
    /\ Running /\ pc \in Stages /\ sub = "incall"
    /\ todo' = Tail(todo)
    /\ sub' = "insert"
    /\ UNCHANGED <<pc, idx, bugzilla_bugs, bugzilla_l3s, emitted, timestamp,
                   clock, remaining, exitStatus, raised, cycle, cycleStart,
                   fetched, stagesDone, sigintSeen>>

\* the insert call raises; main has no try
InsertRaise ==
    /\ Running /\ pc \in Stages /\ sub = "incall"
    /\ Uncaught("insert")

\* the insert loop of a step is exhausted: on to the next step, and after the
\* last one back to the for loop
StageDone ==
    /\ Running /\ pc \in Stages /\ sub = "insert" /\ todo = <<>>
    /\ stagesDone' = stagesDone \cup {pc}
    /\ pc' = NextStage(pc)
    /\ sub' = IF pc = "assigned" THEN "idle" ELSE "compute"
    /\ idx' = IF pc = "assigned" THEN idx + 1 ELSE idx
    /\ UNCHANGED <<bugzilla_bugs, bugzilla_l3s, todo, emitted, timestamp, clock,
                   remaining, exitStatus, raised, cycle, cycleStart, fetched,
                   sigintSeen>>

\* StartSleep entered after every product instead of after the last
StartSleepEarly ==
    /\ Running /\ pc = "for_product" /\ idx > 1
    /\ pc' = "sleep"
    /\ remaining' = Interval
    /\ UNCHANGED <<sub, idx, bugzilla_bugs, bugzilla_l3s, todo, emitted,
                   timestamp, clock, exitStatus, raised, cycle, cycleStart,
                   fetched, stagesDone, sigintSeen>>

\* main.py:136-138: the for loop is exhausted, time.sleep(60 * interval_minutes)
StartSleep ==
    /\ Running /\ pc = "for_product" /\ idx > Len(products)
    /\ pc' = "sleep"
    /\ remaining' = Interval
    /\ UNCHANGED <<sub, idx, bugzilla_bugs, bugzilla_l3s, todo, emitted,
                   timestamp, clock, exitStatus, raised, cycle, cycleStart,
                   fetched, stagesDone, sigintSeen>>

\* one unit of the sleep passes
Tick ==
    /\ Running /\ pc = "sleep" /\ remaining > 0
    /\ remaining' = remaining - 1
    /\ clock' = clock + 1
    /\ UNCHANGED <<pc, sub, idx, bugzilla_bugs, bugzilla_l3s, todo, emitted,
                   timestamp, exitStatus, raised, cycle, cycleStart, fetched,
                   stagesDone, sigintSeen>>

\* main.py:138,88-89: the sleep returns and the next iteration begins
Wake ==
    /\ Running /\ pc = "sleep" /\ remaining = 0
    /\ cycle < MaxCycles
    /\ pc' = "for_product"
    /\ idx' = 1
    /\ cycle' = cycle + 1
    /\ cycleStart' = clock
    /\ fetched' = <<>>
    /\ UNCHANGED <<sub, bugzilla_bugs, bugzilla_l3s, todo, emitted, timestamp,
                   clock, remaining, exitStatus, raised, stagesDone, sigintSeen>>

\* a handler that returns instead of exiting: the interrupted code resumes
sigint_handler_returns(frame) == [pc |-> frame, exitStatus |-> NoExit]

\* main.py:141-142: sys.exit(0) raises SystemExit in the main thread, which
\* nothing in main catches
sigint_handler(frame) == [pc |-> "exited", exitStatus |-> 0]

\* main.py:145: SIGINT is delivered while the process runs
Sigint ==
    /\ Running
    /\ sigintSeen' = TRUE
    /\ pc' = sigint_handler(pc).pc
    /\ exitStatus' = sigint_handler(pc).exitStatus
    /\ UNCHANGED <<sub, idx, bugzilla_bugs, bugzilla_l3s, todo, emitted,
                   timestamp, clock, remaining, raised, cycle, cycleStart,
                   fetched, stagesDone>>

Next ==
    \/ Setup
    \/ FetchCall
    \/ FetchReturn
    \/ FetchRaise
    \/ Classify
    \/ ClassifyRaise
    \/ StatusStep
    \/ ComponentStep
    \/ L3Step
    \/ L3CasesStep
    \/ PriorityStep
    \/ AssignedStep
    \/ InsertCall
    \/ InsertReturn
    \/ InsertRaise
    \/ StageDone
    \/ StartSleep
    \/ Tick
    \/ Wake
    \/ Sigint

Spec == Init /\ [][Next]_vars

----------------------------------------------------------------------------
(* What the properties speak of *)

\* a fetch call is issued by the step
FetchIssued == pc' = "fetch" /\ pc # "fetch"

\* an insert call is issued by the step
InsertIssued == sub' = "incall" /\ sub # "incall"

\* the positions of the insert calls of a dimension and key
EmittedAt(dim, k) ==
    {i \in DOMAIN emitted : emitted[i].dim = dim /\ emitted[i].key = k}

\* the counts passed to the insert calls of a dimension, in order
CountsOf(dim) ==
    LET calls == SelectSeq(emitted, LAMBDA e : e.dim = dim)
    IN  [i \in DOMAIN calls |-> calls[i].count]

RECURSIVE SumSeq(_)
SumSeq(ns) == IF ns = <<>> THEN 0 ELSE SumSeq(Front(ns)) + Last(ns)

\* the number of records whose attribute has the value
NumWith(bugs, attr, k) == Cardinality({i \in DOMAIN bugs : bugs[i][attr] = k})

\* every value the attribute takes in some record
ValuesOf(attr) == {bug[attr] : bug \in BugPool}

\* the records whose whiteboard holds one of the two markers
HasMarker(bug) == contains(bug.whiteboard, wasL3) \/ contains(bug.whiteboard, openL3)

EscalationSubset == SelectSeq(bugzilla_bugs, HasMarker)

\* the number of positions of s at which the marker starts
Occurrences(s, marker) ==
    Cardinality({i \in 1..Len(s) :
                    /\ i + Len(marker) - 1 <= Len(s)
                    /\ SubSeq(s, i, i + Len(marker) - 1) = marker})

\* the occurrences of the marker in the whiteboards of the records
TotalOccurrences(bugs, marker) ==
    SumSeq([i \in DOMAIN bugs |-> Occurrences(bugs[i].whiteboard, marker)])

\* the insert calls of a dimension are the histogram of the attribute
Histogram(dim, bugs, attr) ==
    /\ \A k \in ValuesOf(attr) :
          LET n == NumWith(bugs, attr, k)
          IN  IF n = 0 THEN EmittedAt(dim, k) = {}
              ELSE /\ Cardinality(EmittedAt(dim, k)) = 1
                   /\ \A i \in EmittedAt(dim, k) : emitted[i].count = n
    /\ \A i \in DOMAIN emitted :
          emitted[i].dim = dim => emitted[i].key \in ValuesOf(attr) /\ emitted[i].count > 0
    /\ SumSeq(CountsOf(dim)) = Len(bugs)

----------------------------------------------------------------------------
(* Properties *)

\* C1: a SIGINT delivered at any point of the loop ends the process at once
\* with exit status 0 (no clock unit passes, so a sleep is not waited out),
\* and once it has been delivered no fetch or insert call is issued.
C1_SigintExitsCleanly ==
    /\ [][(sigintSeen' /\ ~sigintSeen) =>
            (pc' = "exited" /\ exitStatus' = 0 /\ clock' = clock)]_vars
    /\ [][sigintSeen => (~FetchIssued /\ ~InsertIssued /\ exitStatus' = 0)]_vars

C1_Witness ==
    /\ sigintSeen /\ pc = "exited" /\ exitStatus = 0
    /\ 0 < remaining /\ remaining < Interval

C3_ErrorsDoNotStopTheDriver ==
    raised \in {"fetch", "insert"} => Running

\* C4: products are fetched in configured order, each once per cycle; a fetch
\* is issued only when every insert call of the product before it has been
\* made; an insert call is for the product fetched last; the sleep starts
\* only after the last step of the last product and lasts the interval; and
\* a cycle begins only when the sleep after the cycle before it has elapsed.
C4_SequentialCycle ==
    /\ [](/\ Len(fetched) <= Len(products)
          /\ \A i \in DOMAIN fetched : fetched[i] = products[i])
    /\ [][FetchIssued =>
            /\ todo = <<>>
            /\ Len(fetched) > 0 => stagesDone = Stages
            /\ fetched' = Append(fetched, products[Len(fetched) + 1])]_vars
    /\ [][InsertIssued =>
            /\ fetched # <<>>
            /\ Last(emitted').product = Last(fetched)
            /\ fetched' = fetched]_vars
    /\ [][(pc' = "sleep" /\ pc # "sleep") =>
            /\ fetched = products
            /\ todo = <<>>
            /\ products # <<>> => stagesDone = Stages
            /\ remaining' = Interval]_vars
    /\ [][(cycle' # cycle /\ cycle > 0) =>
            /\ pc = "sleep" /\ remaining = 0
            /\ cycle' = cycle + 1
            /\ clock = cycleStart + Interval
            /\ fetched' = <<>>]_vars

C4_Witness ==
    /\ pc = "sleep" /\ remaining = 0 /\ cycle = 2
    /\ fetched = products /\ stagesDone = Stages

\* C5: once the loop of a grouped dimension has run, its insert calls are
\* the histogram of the grouping key: status and component over all records,
\* l3_status over the escalation subset by status; one call per key that
\* occurs, with the number of records having it, none for any other key,
\* never a count of 0, and the counts sum to the number of records grouped.
C5_GroupedEmissionsAreHistograms ==
    /\ "status" \in stagesDone => Histogram("status", bugzilla_bugs, "status")
    /\ "component" \in stagesDone => Histogram("component", bugzilla_bugs, "component")
    /\ "l3" \in stagesDone => Histogram("l3_status", EscalationSubset, "status")

C5_Witness ==
    /\ "l3" \in stagesDone
    /\ Len(bugzilla_bugs) = 2
    /\ \E i \in DOMAIN emitted : emitted[i].dim = "status" /\ emitted[i].count = 2
    /\ EscalationSubset = <<>>
    /\ CountsOf("l3_status") = <<>>

\* C6: once the l3_case step has run, exactly one "open" and one "closed"
\* call have been made, even with value 0; the open value is the number of
\* occurrences of "openL3:" in the whiteboards of the escalation records and
\* the closed value that of "wasL3:".
C6_CaseCountsAreOccurrences ==
    "l3_cases" \in stagesDone =>
        /\ Len(CountsOf("l3_case")) = 2
        /\ Cardinality(EmittedAt("l3_case", "open")) = 1
        /\ Cardinality(EmittedAt("l3_case", "closed")) = 1
        /\ \A i \in EmittedAt("l3_case", "open") :
              emitted[i].count = TotalOccurrences(EscalationSubset, openL3)
        /\ \A i \in EmittedAt("l3_case", "closed") :
              emitted[i].count = TotalOccurrences(EscalationSubset, wasL3)

C6_Witness ==
    /\ "l3_cases" \in stagesDone
    /\ Len(EscalationSubset) = 1
    /\ \E i \in EmittedAt("l3_case", "open") : emitted[i].count = 2
    /\ \E i \in EmittedAt("l3_case", "closed") : emitted[i].count = 0

\* the records whose priority, cut to two characters and lower-cased, is k
NumPriority(bugs, k) ==
    Cardinality({i \in DOMAIN bugs : lower(Prefix(bugs[i].priority, 2)) = k})

\* C7: once the priority step has run, exactly the three calls p1, p2 and p3
\* have been made, each with the number of records whose priority, cut to
\* its first two characters and lower-cased, is that key; and the step can
\* always be taken, whatever the priorities are.
C7_PriorityBuckets ==
    /\ (Running /\ pc = "priority" /\ sub = "compute") => ENABLED PriorityStep
    /\ "priority" \in stagesDone =>
        /\ Len(CountsOf("priority")) = 3
        /\ \A j \in DOMAIN PrioKeys :
              /\ Cardinality(EmittedAt("priority", PrioName(PrioKeys[j]))) = 1
              /\ \A i \in EmittedAt("priority", PrioName(PrioKeys[j])) :
                    emitted[i].count = NumPriority(bugzilla_bugs, PrioKeys[j])

C7_Witness ==
    /\ "priority" \in stagesDone
    /\ \E i \in DOMAIN bugzilla_bugs : bugzilla_bugs[i].priority = Str_P1High
    /\ \E i \in DOMAIN bugzilla_bugs : Len(bugzilla_bugs[i].priority) < 2
    /\ \E i \in EmittedAt("priority", "p1") : emitted[i].count = 1
    /\ \E i \in EmittedAt("priority", "p3") : emitted[i].count = 0

\* the records of the assignee whose status is not exactly "RESOLVED"
NumOpen(bugs, who) ==
    Cardinality({i \in DOMAIN bugs :
                    bugs[i].assigned_to = who /\ bugs[i].status # "RESOLVED"})

\* C8: once the assignee step has run, an assignee with n > 0 records whose
\* status is not exactly "RESOLVED" has one assignee_open call with count n
\* ("resolved" in lower case counts), and one with none has no call.
C8_OpenPerAssignee ==
    "assigned" \in stagesDone =>
        /\ \A who \in ValuesOf("assigned_to") :
              LET n == NumOpen(bugzilla_bugs, who)
              IN  IF n = 0 THEN EmittedAt("assignee_open", who) = {}
                  ELSE /\ Cardinality(EmittedAt("assignee_open", who)) = 1
                       /\ \A i \in EmittedAt("assignee_open", who) : emitted[i].count = n
        /\ \A i \in DOMAIN emitted :
              emitted[i].dim = "assignee_open" => emitted[i].key \in ValuesOf("assigned_to")

C8_Witness ==
    /\ "assigned" \in stagesDone
    /\ \E i, j \in DOMAIN bugzilla_bugs :
          /\ bugzilla_bugs[i].status = "resolved"
          /\ bugzilla_bugs[j].status = "RESOLVED"
          /\ bugzilla_bugs[i].assigned_to # bugzilla_bugs[j].assigned_to
          /\ EmittedAt("assignee_open", bugzilla_bugs[j].assigned_to) = {}
          /\ \E e \in EmittedAt("assignee_open", bugzilla_bugs[i].assigned_to) :
                emitted[e].count = 1

\* C9: classifying the fetched records never raises: a record without a
\* whiteboard is classified as no escalation.
C9_ClassifierNeverRaises ==
    raised # "is_l3"

\* C10: once the l3_case step has run, the open and closed values together
\* are at least the sum of the l3_status counts.
C10_CasesCoverEscalations ==
    "l3_cases" \in stagesDone =>
        SumSeq(CountsOf("l3_case")) >= SumSeq(CountsOf("l3_status"))

C10_Witness ==
    /\ "l3_cases" \in stagesDone
    /\ SumSeq(CountsOf("l3_status")) = 1
    /\ SumSeq(CountsOf("l3_case")) = 2
    /\ \E i \in DOMAIN bugzilla_bugs : ~HasMarker(bugzilla_bugs[i])

====
